---- MODULE Spec2Model ----
(***************************************************************************)
(* Model of src/dp/agent/cli/templates/ui/ui_utils.py:                     *)
(*   UIConfigManager  - default document, shallow copy, in-place deep      *)
(*                      merge, command-line overrides;                     *)
(*   UIProcessManager - child processes, tracked list, signal handler,     *)
(*                      start / wait / cleanup.                            *)
(* Python objects live on a heap of dict objects so that the aliasing the  *)
(* code creates (dict.copy() is shallow) is part of the model.             *)
(***************************************************************************)
EXTENDS Integers, Sequences, FiniteSets, TLC

VARIABLES
    heap,       \* Seq of dict objects; an address is an index into it
    stores,     \* UIConfigManager instances, in construction order
    cfgErr,     \* outcome of the last UIConfigManager operation
    nLoads,     \* constructor calls made so far
    nUpdates,   \* update_from_cli calls made so far
    lastUpdate, \* the last update_from_cli call: its store, kwargs and effect
    mD, mO, mR, mpc,  \* the _deep_merge harness: base, update, result, position
    children,   \* every child process launched so far; a pid is an index
    processes,  \* UIProcessManager.processes: the tracked list, of pids
    disp,       \* disposition of SIGINT and SIGTERM: "handler" or "ign"
    stack,      \* the main thread's frame and, above it, running handlers
    last,       \* the call the main flow completed last, with its outcome
    prev,       \* operation and outcome of the call completed before that
    nCalls,     \* calls the main flow has started
    nSignals,   \* signals that reached the Python handler
    nHandlerCleanups,  \* cleanup() calls made by _signal_handler
    orphans,    \* children running and never signalled when a handler returned
    cleared     \* a cleanup() has reached line 260 and cleared the list

cfgVars == <<heap, stores, cfgErr, nLoads, nUpdates, lastUpdate>>
mergeVars == <<mD, mO, mR, mpc>>
supVars == <<children, processes, disp, stack, last, prev, nCalls, nSignals,
             nHandlerCleanups, orphans, cleared>>
vars == <<heap, stores, cfgErr, nLoads, nUpdates, lastUpdate, mD, mO, mR, mpc,
          children, processes, disp, stack, last, prev, nCalls, nSignals,
          nHandlerCleanups, orphans, cleared>>

-----------------------------------------------------------------------------
(* Values.  A Python str is a sequence of atoms (":" is its own atom), so   *)
(* that str.partition(':') and truthiness of "" are computed, not assumed.  *)

Str(s)  == [t |-> "str", s |-> s]
Num(n)  == [t |-> "int", n |-> n]
Lst(l)  == [t |-> "list", l |-> l]
Ref(a)  == [t |-> "ref", a |-> a]
Map(m)  == [t |-> "map", m |-> m]
None    == [t |-> "none"]

IsRef(v) == v.t = "ref"
IsMap(v) == v.t = "map"

EmptyDict == [k \in {} |-> None]

\* what a call of the supervisor was given and what it read from the
\* file system: dev_mode, and whether websocket-server.py, frontend/ and
\* frontend/ui-static exist
NoArgs == [script |-> FALSE, ui |-> FALSE, dist |-> FALSE, dev |-> FALSE]

\* no update_from_cli call made yet
NoUpdate ==
    [i |-> 0, kw |-> None, before |-> None, after |-> None, err |-> "none"]

\* no call completed yet
NoPrev == [op |-> "none", res |-> "none"]
NoEntry ==
    [op |-> "none", res |-> "none", args |-> NoArgs, p |-> 0, dev |-> FALSE,
     port |-> 0, text |-> <<>>, frontend |-> None, before |-> <<>>, after |-> <<>>, kids0 |-> 0, kids1 |-> 0,
     sent |-> {}, intr |-> FALSE]

\* d[k] = v on a dict object
SetKey(d, k, v) == [x \in (DOMAIN d) \cup {k} |-> IF x = k THEN v ELSE d[x]]

-----------------------------------------------------------------------------
(* UIConfigManager.DEFAULT_CONFIG as a document (a tree of values).         *)

DefaultAgent ==
    [module |-> Str(<<"agent">>),
     rootAgent |-> Str(<<"root_agent">>),
     name |-> Str(<<"DP Agent Assistant">>),
     description |-> Str(<<"AI Assistant powered by DP Agent SDK">>),
     welcomeMessage |-> Str(<<"welcome">>)]

DefaultUi == [title |-> Str(<<"DP Agent Assistant">>), theme |-> Str(<<"light">>)]

DefaultFiles ==
    [output_directory |-> Str(<<"./output">>),
     watch_directories |-> Lst(<<Str(<<"./output">>)>>)]

DefaultWebsocket == [port |-> Num(8000), host |-> Str(<<"localhost">>)]

DefaultServer ==
    [port |-> Num(50002),
     host |-> Lst(<<Str(<<"localhost">>), Str(<<"127.0.0.1">>)>>)]

DEFAULT_CONFIG ==
    Map([agent |-> Map(DefaultAgent),
         ui |-> Map(DefaultUi),
         files |-> Map(DefaultFiles),
         websocket |-> Map(DefaultWebsocket),
         server |-> Map(DefaultServer)])

-----------------------------------------------------------------------------
(* The heap.  Alloc builds the objects of a document (what evaluating a     *)
(* dict literal or json.load does): every mapping becomes a fresh dict      *)
(* object, nested mappings are held by reference.                           *)

RECURSIVE AllocKeys(_, _, _, _)
RECURSIVE Alloc(_, _)

\* returns [h |-> heap, a |-> address of the new object]
Alloc(h, doc) ==
    LET a == Len(h) + 1
        h0 == Append(h, EmptyDict)
    IN  [h |-> AllocKeys(h0, a, doc.m, DOMAIN doc.m), a |-> a]

AllocKeys(h, a, m, ks) ==
    IF ks = {} THEN h
    ELSE LET k == CHOOSE x \in ks : TRUE
             h1 == IF IsMap(m[k])
                   THEN LET r == Alloc(h, m[k])
                        IN  [r.h EXCEPT ![a] = SetKey(@, k, Ref(r.a))]
                   ELSE [h EXCEPT ![a] = SetKey(@, k, m[k])]
         IN  AllocKeys(h1, a, m, ks \ {k})

\* the document an address denotes
RECURSIVE Deref(_, _)
Deref(h, a) ==
    Map([k \in DOMAIN h[a] |->
            IF IsRef(h[a][k]) THEN Deref(h, h[a][k].a) ELSE h[a][k]])

\* the class attribute DEFAULT_CONFIG is built once, at class definition
DefaultHeap == Alloc(<<>>, DEFAULT_CONFIG).h
DefaultAddr == Alloc(<<>>, DEFAULT_CONFIG).a

\* dict.copy(): a new dict object with the same values (references shared)
DictCopy(h, a) == [h |-> Append(h, h[a]), a |-> Len(h) + 1]

-----------------------------------------------------------------------------
(* UIConfigManager._deep_merge(base, update): walks update.items() and      *)
(* writes into the base object itself; returns base.                        *)

\* the test of line 57
BothDicts(h, b, u, k) ==
    /\ k \in DOMAIN h[b]
    /\ IsRef(h[b][k])
    /\ IsRef(h[u][k])

RECURSIVE DeepMergeKeys(_, _, _, _)

\* a merge that never descends: every key of update replaces base's value
DeepMergeKeyShallow(h, b, u, k) == [h EXCEPT ![b] = SetKey(@, k, h[u][k])]

\* one turn of the loop body, lines 57-60
DeepMergeKey(h, b, u, k) ==
    IF BothDicts(h, b, u, k)
    THEN LET sub == h[b][k].a
             h1 == DeepMergeKeys(h, sub, h[u][k].a, DOMAIN h[h[u][k].a])
         IN  [h1 EXCEPT ![b] = SetKey(@, k, Ref(sub))]
    ELSE [h EXCEPT ![b] = SetKey(@, k, h[u][k])]

DeepMergeKeys(h, b, u, ks) ==
    IF ks = {} THEN h
    ELSE LET k == CHOOSE x \in ks : TRUE
         IN  DeepMergeKeys(DeepMergeKey(h, b, u, k), b, u, ks \ {k})

\* the heap after _deep_merge(base, update); the call returns the address b
DeepMerge(h, b, u) == DeepMergeKeys(h, b, u, DOMAIN h[u])

-----------------------------------------------------------------------------
(* UIConfigManager._load_config.  file is NoFile when config_path does not  *)
(* exist, otherwise the value json.load returns.                            *)

NoFile == [t |-> "nofile"]

\* a load that returns the file's document alone when there is one
LoadConfigFileOnly(h, file) ==
    LET c == DictCopy(h, DefaultAddr)
    IN  IF file = NoFile
        THEN [h |-> c.h, a |-> c.a, err |-> "none"]
        ELSE IF ~IsMap(file)
        THEN [h |-> c.h, a |-> 0, err |-> "AttributeError"]
        ELSE LET u == Alloc(c.h, file)
             IN  [h |-> u.h, a |-> u.a, err |-> "none"]

\* returns [h, a, err]: the heap, the address returned, the exception raised
LoadConfig(h, file) ==
    LET c == DictCopy(h, DefaultAddr)
    IN  IF file = NoFile
        THEN [h |-> c.h, a |-> c.a, err |-> "none"]
        ELSE IF ~IsMap(file)
        THEN \* update.items() on a list, str or number
             [h |-> c.h, a |-> 0, err |-> "AttributeError"]
        ELSE LET u == Alloc(c.h, file)
             IN  [h |-> DeepMerge(u.h, c.a, u.a), a |-> c.a, err |-> "none"]

-----------------------------------------------------------------------------
(* UIConfigManager.update_from_cli with kwargs.                              *)

\* Python truthiness of kwargs.get(name)
Truthy(v) ==
    CASE v.t = "none" -> FALSE
      [] v.t = "str"  -> v.s # <<>>
      [] v.t = "int"  -> v.n # 0
      [] OTHER        -> TRUE

\* index of the first ":" of s, or 0
RECURSIVE FirstColon(_, _)
FirstColon(s, i) ==
    IF i > Len(s) THEN 0
    ELSE IF s[i] = ":" THEN i
    ELSE FirstColon(s, i + 1)

\* a split at the last ":" instead
PartitionLast(s) ==
    LET c == { i \in 1..Len(s) : s[i] = ":" }
    IN  IF c = {} THEN [module |-> s, variable |-> <<>>]
        ELSE LET i == CHOOSE x \in c : \A y \in c : y <= x
             IN  [module |-> SubSeq(s, 1, i - 1),
                  variable |-> SubSeq(s, i + 1, Len(s))]

\* str.partition(':') -> [module, variable]
Partition(s) ==
    LET i == FirstColon(s, 1)
    IN  IF i = 0 THEN [module |-> s, variable |-> <<>>]
        ELSE [module |-> SubSeq(s, 1, i - 1),
              variable |-> SubSeq(s, i + 1, Len(s))]

\* self.config[sec][key] = v, on a state [h, err] of the running call
SetNested(st, top, sec, key, v) ==
    IF st.err # "none" THEN st
    ELSE IF sec \notin DOMAIN st.h[top] THEN [st EXCEPT !.err = "KeyError"]
    ELSE IF ~IsRef(st.h[top][sec]) THEN [st EXCEPT !.err = "TypeError"]
    ELSE [st EXCEPT !.h[st.h[top][sec].a] = SetKey(@, key, v)]

\* lines 71-75
ApplyAgent(st, top, kw) ==
    IF ~Truthy(kw.agent) THEN st
    ELSE LET p == Partition(kw.agent.s)
             s1 == SetNested(st, top, "agent", "module", Str(p.module))
         IN  IF p.variable # <<>>
             THEN SetNested(s1, top, "agent", "rootAgent", Str(p.variable))
             ELSE s1

\* lines 77-78
ApplyPort(st, top, kw) ==
    IF Truthy(kw.port) THEN SetNested(st, top, "server", "port", kw.port) ELSE st

\* lines 80-81
ApplyWsPort(st, top, kw) ==
    IF Truthy(kw.ws_port)
    THEN SetNested(st, top, "websocket", "port", kw.ws_port) ELSE st

\* a host override that stores the bare string in server.host
ApplyHostScalar(st, top, kw) ==
    IF Truthy(kw.host)
    THEN SetNested(SetNested(st, top, "server", "host", kw.host),
                   top, "websocket", "host", kw.host)
    ELSE st

\* lines 83-85
ApplyHost(st, top, kw) ==
    IF Truthy(kw.host)
    THEN SetNested(SetNested(st, top, "server", "host", Lst(<<kw.host>>)),
                   top, "websocket", "host", kw.host)
    ELSE st

\* the whole call: [h, err]
UpdateFromCli(h, top, kw) ==
    ApplyHost(ApplyWsPort(ApplyPort(ApplyAgent([h |-> h, err |-> "none"],
                                               top, kw), top, kw), top, kw),
              top, kw)

-----------------------------------------------------------------------------
(* Bounds and inputs of the configuration model.                            *)

MaxLoads == 2
MaxUpdates == 1

\* what json.load may return for agent-config.json
OverrideFiles ==
    { Map(EmptyDict),
      Map([agent |-> Map([module |-> Str(<<"pkg.mod">>)])]),
      Map([agent |-> Str(<<"scalar">>)]),
      Map([server |-> Map([host |-> Lst(<<Str(<<"0.0.0.0">>)>>)])]),
      Map([server |-> Lst(<<Num(1)>>)]),
      Map([frontend |-> Map([devPort |-> Num(3001)])]),
      Lst(<<Num(1)>>) }

\* keyword arguments of update_from_cli
AgentArgs == { None, Str(<<>>), Str(<<"m">>), Str(<<"m", ":", "v">>),
               Str(<<"m", ":">>), Str(<<":", "v">>),
               Str(<<"m", ":", "v", ":", "w">>) }
PortArgs == { None, Num(0), Num(9000) }
WsPortArgs == { None, Num(9001) }
HostArgs == { None, Str(<<"h">>) }

\* the calls made: every agent spec alone, every combination of the
\* other three, all four together, and a keyword the code never reads
CliArgs ==
    { [agent |-> a, port |-> None, ws_port |-> None, host |-> None,
       other |-> None] : a \in AgentArgs }
    \cup { [agent |-> None, port |-> p, ws_port |-> w, host |-> hst,
            other |-> None] :
             p \in PortArgs, w \in WsPortArgs, hst \in HostArgs }
    \cup { [agent |-> Str(<<"m", ":", "v">>), port |-> Num(9000),
            ws_port |-> Num(9001), host |-> Str(<<"h">>), other |-> None],
           [agent |-> None, port |-> None, ws_port |-> None, host |-> None,
            other |-> Str(<<"x">>)] }

InitCfg ==
    /\ heap = DefaultHeap
    /\ stores = <<>>
    /\ cfgErr = "none"
    /\ nLoads = 0
    /\ nUpdates = 0
    /\ lastUpdate = NoUpdate
    /\ mD = None /\ mO = None /\ mR = None /\ mpc = "off"
    /\ children = <<>> /\ processes = <<>> /\ stack = <<>>
    /\ disp = [s \in {"SIGINT", "SIGTERM"} |-> "default"]
    /\ last = NoEntry /\ prev = NoPrev /\ nCalls = 0 /\ nSignals = 0
    /\ nHandlerCleanups = 0 /\ orphans = {} /\ cleared = FALSE

\* UIConfigManager(config_path): lines 41-43
Construct(file) ==
    /\ nLoads < MaxLoads
    /\ LET r == LoadConfig(heap, file)
       IN  /\ heap' = r.h
           /\ cfgErr' = r.err
           /\ stores' = IF r.err = "none"
                        THEN Append(stores, [file |-> file, config |-> r.a,
                                             atLoad |-> Deref(r.h, r.a)])
                        ELSE stores
    /\ nLoads' = nLoads + 1
    /\ UNCHANGED <<nUpdates, lastUpdate>>

\* store.update_from_cli(agent=, port=, ws_port=, host=)
Update(i, kw) ==
    /\ nUpdates < MaxUpdates
    /\ LET r == UpdateFromCli(heap, stores[i].config, kw)
       IN  /\ heap' = r.h
           /\ cfgErr' = r.err
    /\ nUpdates' = nUpdates + 1
    /\ UNCHANGED <<stores, nLoads>>

NextCfg ==
    \/ \E file \in OverrideFiles \cup {NoFile} :
          Construct(file) /\ UNCHANGED mergeVars /\ UNCHANGED supVars
    \/ \E i \in 1..Len(stores), kw \in CliArgs :
          Update(i, kw) /\ UNCHANGED lastUpdate
            /\ UNCHANGED mergeVars /\ UNCHANGED supVars

\* one update_from_cli call on a store, with the call and the store's
\* configuration before and after it kept for inspection
UpdateRecorded(i, kw) ==
    /\ Update(i, kw)
    /\ lastUpdate' = [i |-> i, kw |-> kw,
                       before |-> Deref(heap, stores[i].config),
                       after |-> Deref(heap', stores[i].config),
                       err |-> cfgErr']

\* stores constructed in the runs that look at single calls
MaxCliLoads == 1

NextCli ==
    \/ \E file \in OverrideFiles \cup {NoFile} :
          /\ nLoads < MaxCliLoads
          /\ Construct(file) /\ UNCHANGED mergeVars /\ UNCHANGED supVars
    \/ \E i \in 1..Len(stores), kw \in CliArgs :
          UpdateRecorded(i, kw)
            /\ UNCHANGED mergeVars /\ UNCHANGED supVars

-----------------------------------------------------------------------------
(* _deep_merge as a function of two documents: both are built as fresh      *)
(* objects, the merge runs on them, and the result is read back.            *)

PartialFns(K, V) == UNION { [S -> V] : S \in SUBSET K }

MergeKeys == {"a", "b"}
BaseLeaves == { Num(1), Lst(<<Num(1), Num(2)>>) }
UpdateLeaves == { Num(7), Lst(<<Num(9)>>) }

DocsOver(leaves) ==
    LET inner == { Map(f) : f \in PartialFns(MergeKeys, leaves) }
    IN  { Map(f) : f \in PartialFns(MergeKeys, leaves \cup inner) }

InitMerge ==
    /\ mD \in DocsOver(BaseLeaves)
    /\ mO \in DocsOver(UpdateLeaves)
    /\ mR = None
    /\ mpc = "start"
    /\ heap = DefaultHeap /\ stores = <<>> /\ cfgErr = "none"
    /\ nLoads = 0 /\ nUpdates = 0 /\ lastUpdate = NoUpdate
    /\ children = <<>> /\ processes = <<>> /\ stack = <<>>
    /\ disp = [s \in {"SIGINT", "SIGTERM"} |-> "default"]
    /\ last = NoEntry /\ prev = NoPrev /\ nCalls = 0 /\ nSignals = 0
    /\ nHandlerCleanups = 0 /\ orphans = {} /\ cleared = FALSE

RunMerge ==
    /\ mpc = "start"
    /\ LET b == Alloc(<<>>, mD)
           u == Alloc(b.h, mO)
       IN  mR' = Deref(DeepMerge(u.h, b.a, u.a), b.a)
    /\ mpc' = "done"
    /\ UNCHANGED <<mD, mO>>

NextMerge == RunMerge /\ UNCHANGED cfgVars /\ UNCHANGED supVars

SpecCfg == InitCfg /\ [][NextCfg]_vars
SpecCli == InitCfg /\ [][NextCli]_vars
SpecMerge == InitMerge /\ [][NextMerge]_vars

-----------------------------------------------------------------------------
(* UIProcessManager.  The main thread runs one call at a time; a signal     *)
(* whose disposition is the Python handler pushes a handler frame on top    *)
(* of whatever the main thread was doing, and the interrupted frame         *)
(* resumes where it was when the handler returns.                           *)

MaxCalls == 2
MaxSignals == 2
\* calls of the main flow where no signal arrives
MaxSeqCalls == 3

Sigs == {"SIGINT", "SIGTERM"}

\* the literal searched for at line 216
Marker == <<"E", "A", "D", "D", "R", "I", "N", "U", "S", "E">>
\* what frontend.log may hold when line 215 reads it (the file is opened
\* for append, so it holds earlier runs' output and the child's)
LogTexts ==
    { <<>>,
      <<"E", "A", "D", "D", "R">>,
      Marker,
      <<"x">> \o Marker \o <<"y">> }

IdleFrame ==
    [op |-> "idle", pc |-> "idle", p |-> 0, i |-> 0, dev |-> FALSE,
     args |-> NoArgs, before |-> <<>>, kids |-> 0, sent |-> {},
     failed |-> {}, hc |-> 0]

\* the frame of a call that starts now
Frame(op, pc, args) ==
    [op |-> op, pc |-> pc, p |-> 0, i |-> 1, dev |-> args.dev,
     args |-> args, before |-> processes, kids |-> Len(children),
     sent |-> {}, failed |-> {}, hc |-> nHandlerCleanups]

\* the supervisor leaves the configuration model alone
Frozen == UNCHANGED <<cfgVars, mergeVars>>

Top == stack[Len(stack)]
At(ops, pc) == Len(stack) > 0 /\ Top.op \in ops /\ Top.pc = pc

\* subprocess.Popen(...): a new running child
NewChild(kind, cmd) ==
    [kind |-> kind, cmd |-> cmd, alive |-> TRUE, term |-> FALSE, kill |-> FALSE]

\* process.poll() is None
Alive(p) == children[p].alive

Running(ch) ==
    { p \in 1..Len(ch) : ch[p].alive /\ ~ch[p].term /\ ~ch[p].kill }

\* the running frame moves on
Step(f) ==
    /\ stack' = [stack EXCEPT ![Len(stack)] = f]
    /\ UNCHANGED <<last, prev, orphans>>

Goto(pc) == Step([Top EXCEPT !.pc = pc])

\* the running call ends with outcome res; after is the tracked list at
\* that moment.  For a failed frontend start: the log text read, the
\* config's frontend section and the port the message names.
ReturnPort(res, port, text, frontend, after) ==
    IF Top.op = "handler"
    THEN /\ stack' = SubSeq(stack, 1, Len(stack) - 1)
         /\ orphans' = Running(children)
         /\ UNCHANGED <<last, prev>>
    ELSE /\ stack' = <<IdleFrame>>
         /\ last' = [op |-> Top.op, res |-> res, args |-> Top.args,
                     p |-> Top.p, dev |-> Top.dev, port |-> port,
                     text |-> text, frontend |-> frontend,
                     before |-> Top.before, after |-> after,
                     kids0 |-> Top.kids, kids1 |-> Len(children),
                     sent |-> Top.sent,
                     intr |-> (nHandlerCleanups # Top.hc)]
         /\ prev' = [op |-> last.op, res |-> last.res]
         /\ UNCHANGED orphans

Return(res, after) == ReturnPort(res, 0, <<>>, None, after)

InitSup ==
    /\ children = <<>>
    /\ processes = <<>>
    /\ disp = [s \in Sigs |-> "handler"]
    /\ stack = <<IdleFrame>>
    /\ last = NoEntry /\ prev = NoPrev /\ nCalls = 0 /\ nSignals = 0
    /\ nHandlerCleanups = 0 /\ orphans = {} /\ cleared = FALSE
    /\ heap = DefaultHeap /\ stores = <<>> /\ cfgErr = "none"
    /\ nLoads = 0 /\ nUpdates = 0 /\ lastUpdate = NoUpdate
    /\ mD = None /\ mO = None /\ mR = None /\ mpc = "off"

\* the main flow calls an operation of the supervisor (its bound-th call
\* at most)
Call(op, pc, args, bound) ==
    /\ Len(stack) = 1 /\ Top.op = "idle"
    /\ nCalls < bound
    /\ nCalls' = nCalls + 1
    /\ stack' = <<Frame(op, pc, args)>>
    /\ UNCHANGED <<children, processes, disp, last, prev, nSignals,
                   nHandlerCleanups, orphans, cleared>>
    /\ Frozen

\* ---- the environment: signals and children ----

\* a signal reaches the supervising process: the handler runs on top of
\* the interrupted frame, or the signal is ignored
Deliver(sig) ==
    /\ Len(stack) > 0
    /\ IF disp[sig] = "handler"
       THEN /\ nSignals < MaxSignals
            /\ nSignals' = nSignals + 1
            /\ stack' = Append(stack, Frame("handler", "h_ign_int", NoArgs))
       ELSE UNCHANGED <<nSignals, stack>>
    /\ UNCHANGED <<children, processes, disp, last, prev, nCalls,
                   nHandlerCleanups, orphans, cleared>>
    /\ Frozen

\* a running child exits (by itself, on SIGTERM, or after SIGKILL)
ChildExit(p) ==
    /\ p \in 1..Len(children)
    /\ children[p].alive
    /\ children' = [children EXCEPT ![p].alive = FALSE]
    /\ UNCHANGED <<processes, disp, stack, last, prev, nCalls, nSignals,
                   nHandlerCleanups, orphans, cleared>>
    /\ Frozen

\* ---- _signal_handler, lines 102-108 ----

HandlerIgnoreInt ==
    /\ At({"handler"}, "h_ign_int")
    /\ disp' = [disp EXCEPT !["SIGINT"] = "ign"]
    /\ Goto("h_ign_term")
    /\ UNCHANGED <<children, processes, nCalls, nSignals, nHandlerCleanups, cleared>>
    /\ Frozen

HandlerIgnoreTerm ==
    /\ At({"handler"}, "h_ign_term")
    /\ disp' = [disp EXCEPT !["SIGTERM"] = "ign"]
    /\ Goto("c_check")
    /\ UNCHANGED <<children, processes, nCalls, nSignals, nHandlerCleanups, cleared>>
    /\ Frozen

\* ---- cleanup, lines 235-260 (run by a caller or by the handler) ----

CleanupOps == {"cleanup", "handler"}

\* the tracked list that line 260 leaves, when it keeps it instead
AfterClearKept == processes

\* the tracked list after self.processes.clear()
AfterClear == <<>>

\* a loop over a copy of the list made when the call started
IterSnapshot(f) == f.before

\* lines 228, 241, 252: "for process in self.processes" reads the list
\* object itself, at its current length, each time round
IterList(f) == processes

\* a terminate loop that finds no process to signal
TermCandidateNone(q) == FALSE

\* line 242: process.poll() is None
TermCandidate(q) == Alive(q)

\* an error in terminate() that abandons the loop
TermErrorBreak == "c_sleep"

\* lines 245-246: the bare except passes, and the loop goes on
TermErrorNext == "c_t_next"

\* a wait() with no timeout: it returns once the child is gone
WaitNoTimeout(q, reaped) == reaped /\ ~Alive(q)

\* line 256: wait(timeout=0.5) returns if the child is gone by then
\* (reaped) and raises TimeoutExpired if it is not
WaitTimeout(q, reaped) == ~Alive(q) => reaped

\* lines 237-238
CleanupCheck ==
    /\ At(CleanupOps, "c_check")
    /\ nHandlerCleanups' = IF Top.op = "handler" THEN nHandlerCleanups + 1
                           ELSE nHandlerCleanups
    /\ IF processes = <<>>
       THEN Return("ok", processes)
       ELSE Step([Top EXCEPT !.pc = "c_t_next", !.i = 1])
    /\ UNCHANGED <<children, processes, disp, nCalls, nSignals, cleared>>
    /\ Frozen

\* lines 241-242: the next element of the list, and its poll()
CleanupTermNext ==
    /\ At(CleanupOps, "c_t_next")
    /\ IF Top.i > Len(IterList(Top))
       THEN Goto("c_sleep")
       ELSE LET q == IterList(Top)[Top.i]
            IN  IF TermCandidate(q)
                THEN Step([Top EXCEPT !.pc = "c_term", !.p = q, !.i = @ + 1])
                ELSE Step([Top EXCEPT !.i = @ + 1])
    /\ UNCHANGED <<children, processes, disp, nCalls, nSignals,
                   nHandlerCleanups, cleared>>
    /\ Frozen

\* lines 243-246: Popen.terminate() does nothing to a child that is gone;
\* otherwise it signals it, or raises, and the bare except swallows that
CleanupTerminate(ok) ==
    /\ At(CleanupOps, "c_term")
    /\ ~Alive(Top.p) => ok
    /\ IF ~ok
       THEN /\ UNCHANGED children
            /\ Step([Top EXCEPT !.pc = TermErrorNext,
                                !.failed = @ \cup {<<Top.p, "term">>}])
       ELSE IF Alive(Top.p)
       THEN /\ children' = [children EXCEPT ![Top.p].term = TRUE]
            /\ Step([Top EXCEPT !.pc = "c_t_next",
                                !.sent = @ \cup {<<Top.p, "term">>}])
       ELSE /\ UNCHANGED children
            /\ Goto("c_t_next")
    /\ UNCHANGED <<processes, disp, nCalls, nSignals, nHandlerCleanups, cleared>>
    /\ Frozen

\* line 249
CleanupSleep ==
    /\ At(CleanupOps, "c_sleep")
    /\ Step([Top EXCEPT !.pc = "c_k_next", !.i = 1])
    /\ UNCHANGED <<children, processes, disp, nCalls, nSignals,
                   nHandlerCleanups, cleared>>
    /\ Frozen

\* lines 252-253
CleanupKillNext ==
    /\ At(CleanupOps, "c_k_next")
    /\ IF Top.i > Len(IterList(Top))
       THEN Goto("c_clear")
       ELSE LET q == IterList(Top)[Top.i]
            IN  IF Alive(q)
                THEN Step([Top EXCEPT !.pc = "c_kill", !.p = q, !.i = @ + 1])
                ELSE Step([Top EXCEPT !.i = @ + 1])
    /\ UNCHANGED <<children, processes, disp, nCalls, nSignals,
                   nHandlerCleanups, cleared>>
    /\ Frozen

\* line 255: Popen.kill(), like terminate(); raising skips the wait of
\* line 256
CleanupKill(ok) ==
    /\ At(CleanupOps, "c_kill")
    /\ ~Alive(Top.p) => ok
    /\ IF ok
       THEN IF Alive(Top.p)
            THEN /\ children' = [children EXCEPT ![Top.p].kill = TRUE]
                 /\ Step([Top EXCEPT !.pc = "c_kwait",
                                     !.sent = @ \cup {<<Top.p, "kill">>}])
            ELSE /\ UNCHANGED children
                 /\ Goto("c_kwait")
       ELSE /\ UNCHANGED children
            /\ Step([Top EXCEPT !.pc = "c_k_next",
                                !.failed = @ \cup {<<Top.p, "kill">>}])
    /\ UNCHANGED <<processes, disp, nCalls, nSignals, nHandlerCleanups, cleared>>
    /\ Frozen

\* line 256: wait(timeout=0.5) returns when the child is gone, or raises
\* TimeoutExpired, which is swallowed
CleanupKillWait(reaped) ==
    /\ At(CleanupOps, "c_kwait")
    /\ WaitTimeout(Top.p, reaped)
    /\ children' = IF reaped THEN [children EXCEPT ![Top.p].alive = FALSE]
                   ELSE children
    /\ Goto("c_k_next")
    /\ UNCHANGED <<processes, disp, nCalls, nSignals, nHandlerCleanups, cleared>>
    /\ Frozen

\* line 260
CleanupClear ==
    /\ At(CleanupOps, "c_clear")
    /\ processes' = AfterClear
    /\ cleared' = TRUE
    /\ Return("ok", processes')
    /\ UNCHANGED <<children, disp, nCalls, nSignals, nHandlerCleanups>>
    /\ Frozen

\* ---- wait_for_processes, lines 225-233 ----

\* line 228: the list iterator yields the next element, or the loop ends
WaitNext ==
    /\ At({"waitAll"}, "w_next")
    /\ IF Top.i > Len(IterList(Top))
       THEN Return("ok", processes)
       ELSE Step([Top EXCEPT !.pc = "w_wait", !.p = IterList(Top)[Top.i],
                             !.i = @ + 1])
    /\ UNCHANGED <<children, processes, disp, nCalls, nSignals,
                   nHandlerCleanups, cleared>>
    /\ Frozen

\* line 230: process.wait() returns once the child has exited
WaitWait ==
    /\ At({"waitAll"}, "w_wait")
    /\ ~Alive(Top.p)
    /\ Goto("w_next")
    /\ UNCHANGED <<children, processes, disp, nCalls, nSignals,
                   nHandlerCleanups, cleared>>
    /\ Frozen

\* ---- start_websocket_server, lines 110-150 ----

\* the tracked list with the new process put in front
TrackedFirst(list, q) == <<q>> \o list

\* self.processes.append(process)
Tracked(list, q) == Append(list, q)

\* lines 115-117: exists is websocket_script.exists()
StartBackendCheck(exists) ==
    /\ At({"startBackend"}, "sb_check")
    /\ IF ~exists
       THEN Return("FileNotFoundError", processes)
       ELSE Step([Top EXCEPT !.pc = "sb_popen", !.args.script = TRUE])
    /\ UNCHANGED <<children, processes, disp, nCalls, nSignals,
                   nHandlerCleanups, cleared>>
    /\ Frozen

\* lines 131-138: the child runs from here on; process is a local
StartBackendPopen ==
    /\ At({"startBackend"}, "sb_popen")
    /\ children' = Append(children, NewChild("backend", "websocket-server.py"))
    /\ Step([Top EXCEPT !.pc = "sb_append", !.p = Len(children) + 1])
    /\ UNCHANGED <<processes, disp, nCalls, nSignals, nHandlerCleanups, cleared>>
    /\ Frozen

\* line 139
StartBackendAppend ==
    /\ At({"startBackend"}, "sb_append")
    /\ processes' = Tracked(processes, Top.p)
    /\ Goto("sb_sleep")
    /\ UNCHANGED <<children, disp, nCalls, nSignals, nHandlerCleanups, cleared>>
    /\ Frozen

\* lines 142-150: the settle sleep, then the liveness poll
StartBackendPoll ==
    /\ At({"startBackend"}, "sb_sleep")
    /\ IF ~Alive(Top.p)
       THEN Return("StartupFailed", processes)
       ELSE Return("ok", processes)
    /\ UNCHANGED <<children, processes, disp, nCalls, nSignals,
                   nHandlerCleanups, cleared>>
    /\ Frozen

\* ---- start_frontend_server, lines 152-222 ----

\* a short-circuit that never applies
StaticNever(args) == FALSE

\* the test of line 163
StaticShortCircuit(args) == args.dist /\ ~args.dev

\* dev_mode as the caller passed it
CallerDevMode(args) == args.dev

\* lines 169-171: dev_mode as the rest of the call sees it
EffectiveDevMode(args) == IF ~args.dev /\ ~args.dist THEN TRUE ELSE args.dev

\* lines 188-194
FrontendCmd(dev) == IF dev THEN "npm run dev" ELSE "npm run build"

\* line 182: self.config.get('frontend', {}).get('devPort', 3000);
\* frontend is the config's "frontend" section, or None without one
FrontendDevPort(frontend) ==
    IF frontend = None \/ "devPort" \notin DOMAIN frontend.m THEN 3000
    ELSE frontend.m["devPort"].n

\* a search that only looks at the start of the text
StartsWith(text, m) ==
    Len(text) >= Len(m) /\ SubSeq(text, 1, Len(m)) = m

\* m in text, for two sequences of characters
Contains(text, m) ==
    \E k \in 1..(Len(text) - Len(m) + 1) :
        SubSeq(text, k, k + Len(m) - 1) = m

\* lines 214-219: the exception raised once the frontend is found exited
ClassifyFailure(text, frontend) ==
    IF Contains(text, Marker)
    THEN [res |-> "PortInUse", port |-> FrontendDevPort(frontend)]
    ELSE [res |-> "StartupFailedSeeLog", port |-> 0]

\* lines 157-175: ui, dist and nm are what ui_path.exists(),
\* dist_path.exists() and node_modules.exists() return (a path under a
\* missing directory does not exist, and a test the code does not reach
\* reads nothing)
StartFrontendCheck(ui, dist, nm) ==
    /\ At({"startFrontend"}, "sf_check")
    /\ ~ui => ~dist /\ ~nm
    /\ LET args == [Top.args EXCEPT !.ui = ui, !.dist = dist]
       IN  IF ~ui
           THEN Step([Top EXCEPT !.pc = "sf_missing", !.args = args])
           ELSE IF StaticShortCircuit(args)
           THEN /\ ~nm
                /\ Step([Top EXCEPT !.pc = "sf_static", !.args = args])
           ELSE Step([Top EXCEPT !.args = args,
                                 !.dev = EffectiveDevMode(args),
                                 !.pc = IF nm THEN "sf_popen"
                                        ELSE "sf_install"])
    /\ UNCHANGED <<children, processes, disp, nCalls, nSignals,
                   nHandlerCleanups, cleared>>
    /\ Frozen

\* line 159
StartFrontendMissing ==
    /\ At({"startFrontend"}, "sf_missing")
    /\ Return("FileNotFoundError", processes)
    /\ UNCHANGED <<children, processes, disp, nCalls, nSignals,
                   nHandlerCleanups, cleared>>
    /\ Frozen

\* lines 165-167
StartFrontendStatic ==
    /\ At({"startFrontend"}, "sf_static")
    /\ Return("null", processes)
    /\ UNCHANGED <<children, processes, disp, nCalls, nSignals,
                   nHandlerCleanups, cleared>>
    /\ Frozen

\* line 177: subprocess.run starts npm install ...
StartFrontendInstall ==
    /\ At({"startFrontend"}, "sf_install")
    /\ children' = Append(children, NewChild("install", "npm install"))
    /\ Step([Top EXCEPT !.pc = "sf_installed", !.p = Len(children) + 1])
    /\ UNCHANGED <<processes, disp, nCalls, nSignals, nHandlerCleanups, cleared>>
    /\ Frozen

\* ... and waits for it; check=True raises on a non-zero exit status
StartFrontendInstalled(rc) ==
    /\ At({"startFrontend"}, "sf_installed")
    /\ ~Alive(Top.p)
    /\ IF rc # 0
       THEN Return("CalledProcessError", processes)
       ELSE Goto("sf_popen")
    /\ UNCHANGED <<children, processes, disp, nCalls, nSignals,
                   nHandlerCleanups, cleared>>
    /\ Frozen

\* lines 197-205: frontend.log is opened for append and the child started
StartFrontendPopen ==
    /\ At({"startFrontend"}, "sf_popen")
    /\ children' = Append(children, NewChild("frontend", FrontendCmd(Top.dev)))
    /\ Step([Top EXCEPT !.pc = "sf_append", !.p = Len(children) + 1])
    /\ UNCHANGED <<processes, disp, nCalls, nSignals, nHandlerCleanups, cleared>>
    /\ Frozen

\* line 206
StartFrontendAppend ==
    /\ At({"startFrontend"}, "sf_append")
    /\ processes' = Tracked(processes, Top.p)
    /\ Goto("sf_sleep")
    /\ UNCHANGED <<children, disp, nCalls, nSignals, nHandlerCleanups, cleared>>
    /\ Frozen

\* lines 209-222: the settle sleep, the liveness poll, and the log read;
\* text is what f.read() returns, frontend the config's frontend section
\* (neither is looked at where the code does not use it)
StartFrontendPoll(text, frontend) ==
    /\ At({"startFrontend"}, "sf_sleep")
    /\ IF ~Alive(Top.p)
       THEN LET c == ClassifyFailure(text, frontend)
            IN  /\ c.res # "PortInUse" => frontend = None
                /\ ReturnPort(c.res, c.port, text, frontend, processes)
       ELSE /\ frontend = None /\ text = <<>>
            /\ Return("ok", processes)
    /\ UNCHANGED <<children, processes, disp, nCalls, nSignals,
                   nHandlerCleanups, cleared>>
    /\ Frozen

\* ---- the whole supervisor ----

\* the "frontend" section of the config the supervisor was given
FrontendSections == { None, Map([devPort |-> Num(3001)]) }

\* the main flow starts its next call
MainCall(bound) ==
    \/ Call("startBackend", "sb_check", NoArgs, bound)
    \/ \E dev \in BOOLEAN :
          Call("startFrontend", "sf_check", [NoArgs EXCEPT !.dev = dev], bound)
    \/ Call("waitAll", "w_next", NoArgs, bound)
    \/ Call("cleanup", "c_check", NoArgs, bound)

\* signals may arrive at any point
Next ==
    \/ MainCall(MaxCalls)
    \/ \E sig \in Sigs : Deliver(sig)
    \/ \E q \in 1..Len(children) : ChildExit(q)
    \/ HandlerIgnoreInt
    \/ HandlerIgnoreTerm
    \/ CleanupCheck
    \/ CleanupTermNext
    \/ \E ok \in BOOLEAN : CleanupTerminate(ok)
    \/ CleanupSleep
    \/ CleanupKillNext
    \/ \E ok \in BOOLEAN : CleanupKill(ok)
    \/ \E reaped \in BOOLEAN : CleanupKillWait(reaped)
    \/ CleanupClear
    \/ WaitNext
    \/ WaitWait
    \/ \E exists \in BOOLEAN : StartBackendCheck(exists)
    \/ StartBackendPopen
    \/ StartBackendAppend
    \/ StartBackendPoll
    \/ \E ui \in BOOLEAN, dist \in BOOLEAN, nm \in BOOLEAN :
          StartFrontendCheck(ui, dist, nm)
    \/ StartFrontendMissing
    \/ StartFrontendStatic
    \/ StartFrontendInstall
    \/ \E rc \in {0, 1} : StartFrontendInstalled(rc)
    \/ StartFrontendPopen
    \/ StartFrontendAppend
    \/ \E text \in LogTexts, frontend \in FrontendSections :
          StartFrontendPoll(text, frontend)

\* no signal arrives
NextSeq ==
    \/ MainCall(MaxSeqCalls)
    \/ \E q \in 1..Len(children) : ChildExit(q)
    \/ CleanupCheck
    \/ CleanupTermNext
    \/ \E ok \in BOOLEAN : CleanupTerminate(ok)
    \/ CleanupSleep
    \/ CleanupKillNext
    \/ \E ok \in BOOLEAN : CleanupKill(ok)
    \/ \E reaped \in BOOLEAN : CleanupKillWait(reaped)
    \/ CleanupClear
    \/ WaitNext
    \/ WaitWait
    \/ \E exists \in BOOLEAN : StartBackendCheck(exists)
    \/ StartBackendPopen
    \/ StartBackendAppend
    \/ StartBackendPoll
    \/ \E ui \in BOOLEAN, dist \in BOOLEAN, nm \in BOOLEAN :
          StartFrontendCheck(ui, dist, nm)
    \/ StartFrontendMissing
    \/ StartFrontendStatic
    \/ StartFrontendInstall
    \/ \E rc \in {0, 1} : StartFrontendInstalled(rc)
    \/ StartFrontendPopen
    \/ StartFrontendAppend
    \/ \E text \in LogTexts, frontend \in FrontendSections :
          StartFrontendPoll(text, frontend)

Spec == InitSup /\ [][Next]_vars
SpecSeq == InitSup /\ [][NextSeq]_vars

\* a step of the main thread inside cleanup(): none of them waits for
\* anything but the 0.5 s of lines 249 and 256
CleanupStep ==
    \/ CleanupCheck
    \/ CleanupTermNext
    \/ \E ok \in BOOLEAN : CleanupTerminate(ok)
    \/ CleanupSleep
    \/ CleanupKillNext
    \/ \E ok \in BOOLEAN : CleanupKill(ok)
    \/ \E reaped \in BOOLEAN : CleanupKillWait(reaped)
    \/ CleanupClear

\* the main thread keeps running: a statement of cleanup() that can
\* execute does execute.  Nothing is assumed of the children or of the
\* caller making further calls.
SpecFair == SpecSeq /\ WF_vars(CleanupStep)

-----------------------------------------------------------------------------
(* Claims about UIConfigManager.                                            *)

\* the merge of two documents, stated on the documents themselves
RECURSIVE MergedDoc(_, _)
MergedDoc(D, O) ==
    Map([k \in (DOMAIN D.m) \cup (DOMAIN O.m) |->
            IF k \notin DOMAIN O.m THEN D.m[k]
            ELSE IF k \in DOMAIN D.m /\ IsMap(D.m[k]) /\ IsMap(O.m[k])
                 THEN MergedDoc(D.m[k], O.m[k])
                 ELSE O.m[k]])

\* C8: merge(D,O) keeps every key of D absent from O with its value, merges
\* recursively a key that is a mapping on both sides, and lets any other
\* key of O replace D's value whole (a list is replaced, never combined).
C8_DeepMerge == mpc = "done" => mR = MergedDoc(mD, mO)

\* a merge that recursed into "a", kept D's "b" there and replaced a list
C8_Witness ==
    /\ mpc = "done"
    /\ "a" \in DOMAIN mD.m /\ "a" \in DOMAIN mO.m
    /\ IsMap(mD.m["a"]) /\ IsMap(mO.m["a"])
    /\ DOMAIN mD.m["a"].m = {"a", "b"}
    /\ DOMAIN mO.m["a"].m = {"a"}
    /\ mD.m["a"].m["a"] = Lst(<<Num(1), Num(2)>>)
    /\ mO.m["a"].m["a"] = Lst(<<Num(9)>>)
    /\ mR.m["a"].m["a"] = Lst(<<Num(9)>>)
    /\ mR.m["a"].m["b"] = mD.m["a"].m["b"]

DefaultSections == DOMAIN DEFAULT_CONFIG.m

\* every nested key of default section sec is present in doc
SectionKeysKept(doc, sec) ==
    /\ sec \in DOMAIN doc.m
    /\ IsMap(doc.m[sec])
    /\ DOMAIN DEFAULT_CONFIG.m[sec].m \subseteq DOMAIN doc.m[sec].m

\* C9 as stated: whatever the override file holds, every section and every
\* nested key of the default configuration is present in what load returns.
C9_AllDefaultKeysKept ==
    \A i \in 1..Len(stores) :
        \A sec \in DefaultSections : SectionKeysKept(stores[i].atLoad, sec)

\* C9 amended: every default section key is present in what load returns,
\* and every nested key of a default section is present whenever the
\* override file gives that section no value or a mapping.
C9_DefaultKeysKept ==
    \A i \in 1..Len(stores) :
        \A sec \in DefaultSections :
            /\ sec \in DOMAIN stores[i].atLoad.m
            /\ ( \/ stores[i].file = NoFile
                 \/ sec \notin DOMAIN stores[i].file.m
                 \/ IsMap(stores[i].file.m[sec]) )
               => SectionKeysKept(stores[i].atLoad, sec)

\* a load that merged an override into the agent section
C9_Witness ==
    \E i \in 1..Len(stores) :
        /\ stores[i].file = Map([agent |-> Map([module |-> Str(<<"pkg.mod">>)])])
        /\ stores[i].atLoad.m["agent"].m["module"] = Str(<<"pkg.mod">>)
        /\ stores[i].atLoad.m["agent"].m["rootAgent"] = Str(<<"root_agent">>)

\* C10: a load with no file returns exactly the built-in default document,
\* whatever was loaded or overridden earlier in the same run.
C10_FilelessLoadIsDefault ==
    \A i \in 1..Len(stores) :
        stores[i].file = NoFile => stores[i].atLoad = DEFAULT_CONFIG

\* the document d with d[sec][key] = v
WithField(d, sec, key, v) ==
    Map([d.m EXCEPT ![sec] = Map(SetKey(@.m, key, v))])

\* an input the call treats as supplied: present and neither 0 nor ""
Supplied(v) == v # None /\ v # Num(0) /\ v # Str(<<>>)

\* the parts M and V of an agent spec: M runs up to the first ":", V is
\* what follows it; without a ":" the whole spec is M
SpecParts(s) ==
    LET c == { i \in 1..Len(s) : s[i] = ":" }
    IN  IF c = {} THEN [M |-> s, V |-> <<>>]
        ELSE LET i == CHOOSE x \in c : \A y \in c : x <= y
             IN  [M |-> SubSeq(s, 1, i - 1), V |-> SubSeq(s, i + 1, Len(s))]

\* the last call was given an agent spec, on a configuration whose agent
\* section is a mapping (the Configuration of the data model)
C11_Case ==
    /\ lastUpdate.i # 0
    /\ Supplied(lastUpdate.kw.agent)
    /\ IsMap(lastUpdate.before.m["agent"])

\* C11: an agent spec "M:V" sets agent.module to M and agent.rootAgent to
\* V, splitting at the first ":"; a spec with no or an empty variable part
\* sets agent.module and keeps agent.rootAgent; given alone, the spec
\* changes no other field and raises nothing.
C11_AgentSpec ==
    C11_Case =>
        LET b == lastUpdate.before
            a == lastUpdate.after
            kw == lastUpdate.kw
            mv == SpecParts(kw.agent.s)
            root == IF mv.V # <<>> THEN Str(mv.V)
                    ELSE b.m["agent"].m["rootAgent"]
        IN  /\ a.m["agent"].m["module"] = Str(mv.M)
            /\ a.m["agent"].m["rootAgent"] = root
            /\ (~Supplied(kw.port) /\ ~Supplied(kw.ws_port)
                    /\ ~Supplied(kw.host))
                 => /\ lastUpdate.err = "none"
                    /\ a = WithField(WithField(b, "agent", "module", Str(mv.M)),
                                     "agent", "rootAgent", root)

\* the spec "m:v:w" applied: module m, root agent "v:w", the rest as before
C11_Witness ==
    /\ C11_Case
    /\ lastUpdate.kw.agent = Str(<<"m", ":", "v", ":", "w">>)
    /\ lastUpdate.after.m["agent"].m["module"] = Str(<<"m">>)
    /\ lastUpdate.after.m["agent"].m["rootAgent"] = Str(<<"v", ":", "w">>)
    /\ lastUpdate.after.m["agent"].m["name"] = Str(<<"DP Agent Assistant">>)
    /\ lastUpdate.after # lastUpdate.before

\* what port, ws_port and host are to do to document b
ExpectedOverrides(b, kw) ==
    LET d1 == IF Supplied(kw.port)
              THEN WithField(b, "server", "port", kw.port) ELSE b
        d2 == IF Supplied(kw.ws_port)
              THEN WithField(d1, "websocket", "port", kw.ws_port) ELSE d1
    IN  IF Supplied(kw.host)
        THEN WithField(WithField(d2, "server", "host", Lst(<<kw.host>>)),
                       "websocket", "host", kw.host)
        ELSE d2

\* the last call, on a configuration whose sections are mappings
C14_Case ==
    /\ lastUpdate.i # 0
    /\ \A sec \in {"agent", "server", "websocket"} :
           IsMap(lastUpdate.before.m[sec])

\* C14: port sets server.port, ws_port sets websocket.port, host sets
\* server.host to [host] and websocket.host to host, and nothing else
\* changes outside the agent section (nor inside it without an agent
\* spec); a call with no recognised input leaves any configuration as it
\* was and raises nothing.
C14_OnlySuppliedFields ==
    LET b == lastUpdate.before
        a == lastUpdate.after
        kw == lastUpdate.kw
        e == ExpectedOverrides(b, kw)
    IN  /\ C14_Case
            => /\ lastUpdate.err = "none"
               /\ DOMAIN a.m = DOMAIN b.m
               /\ \A sec \in DOMAIN b.m \ {"agent"} : a.m[sec] = e.m[sec]
               /\ ~Supplied(kw.agent) => a = e
        /\ (lastUpdate.i # 0 /\ \A f \in {"agent", "port", "ws_port", "host"} :
                                    ~Supplied(kw[f]))
            => lastUpdate.err = "none" /\ a = b

\* port, ws_port and host applied together to the default document
C14_Witness ==
    /\ C14_Case
    /\ lastUpdate.before = DEFAULT_CONFIG
    /\ lastUpdate.kw = [agent |-> None, port |-> Num(9000),
                        ws_port |-> Num(9001), host |-> Str(<<"h">>),
                        other |-> None]
    /\ lastUpdate.after.m["server"].m["port"] = Num(9000)
    /\ lastUpdate.after.m["server"].m["host"] = Lst(<<Str(<<"h">>)>>)
    /\ lastUpdate.after.m["websocket"].m["port"] = Num(9001)
    /\ lastUpdate.after.m["websocket"].m["host"] = Str(<<"h">>)
    /\ lastUpdate.after.m["agent"] = lastUpdate.before.m["agent"]

-----------------------------------------------------------------------------
(* Claims about UIProcessManager.                                           *)

\* a caller's cleanup() is running (a handler may be running on top of it)
InCleanup == Len(stack) > 0 /\ stack[1].op = "cleanup"

\* C12: waitAll returns normally only once every tracked process has
\* exited by itself, and a signal handled during the wait makes waitAll
\* end with the interrupt instead of returning normally.
C12_InterruptPropagates ==
    (last.op = "waitAll" /\ last.before # <<>> /\ last.res = "ok")
        => /\ ~last.intr
           /\ \A k \in 1..Len(last.before) :
                 LET c == children[last.before[k]]
                 IN  ~c.alive /\ ~c.term /\ ~c.kill

\* the main flow is between two calls and no handler is running
MainIdle == Len(stack) = 1 /\ Top.op = "idle"

PrefixOf(a, b) == Len(a) <= Len(b) /\ SubSeq(b, 1, Len(a)) = a

\* C1: when the backend is found exited at the liveness poll, startBackend
\* fails and the tracked list is what it was before the call (the failed
\* process is not in it).
C1_FailedBackendNotTracked ==
    (last.op = "startBackend" /\ last.res = "StartupFailed" /\ ~last.intr)
        => /\ last.after = last.before
           /\ \A k \in 1..Len(last.after) : last.after[k] # last.p

\* C2: once the signal handler's cleanup has returned, every child launched
\* so far has exited or has been sent terminate or kill.
C2_NoChildLeftRunning == orphans = {}

\* C3: whatever signals arrive, the handler calls cleanup() at most once.
C3_CleanupOnce == nHandlerCleanups <= 1

\* C4: cleanup() never raises and leaves the tracked list empty; called on
\* an empty list, or right after another cleanup(), it signals no process.
C4_CleanupIdempotent ==
    last.op = "cleanup"
        => /\ last.res = "ok"
           /\ last.after = <<>>
           /\ last.before = <<>> => last.sent = {}
           /\ prev.op = "cleanup" => last.before = <<>> /\ last.sent = {}

\* two cleanups in a row, the first of which had a process to terminate
C4_Witness ==
    /\ MainIdle
    /\ prev.op = "cleanup" /\ last.op = "cleanup"
    /\ \E q \in 1..Len(children) : children[q].term
    /\ processes = <<>>

\* the first two calls were a successful startBackend and a startFrontend
\* that spawned a process, and no cleanup ran
C5_Case ==
    /\ MainIdle
    /\ nCalls = 2
    /\ prev = [op |-> "startBackend", res |-> "ok"]
    /\ last.op = "startFrontend"
    /\ last.res \in {"ok", "PortInUse", "StartupFailedSeeLog"}
    /\ nHandlerCleanups = 0

C5_Order ==
    C5_Case => /\ Len(processes) = 2
               /\ children[processes[1]].kind = "backend"
               /\ children[processes[2]].kind = "frontend"

\* a step that is not the clear of line 260 only ever extends the list
C5_Step ==
    ~At(CleanupOps, "c_clear") => PrefixOf(processes, processes')

\* C5: after startBackend then startFrontend on a fresh supervisor the
\* tracked list is <<backend, frontend>>, and nothing but cleanup removes
\* or reorders tracked entries.
C5_TrackedOrder == []C5_Order /\ [][C5_Step]_vars

C5_Witness == C5_Case /\ last.res = "ok" /\ Len(processes) = 2

\* C6: with the frontend directory and its static-assets directory present
\* and devMode false, startFrontend returns no process, raises nothing,
\* launches no child and leaves the tracked list as it was.
C6_StaticShortCircuit ==
    (last.op = "startFrontend" /\ last.args.ui /\ last.args.dist
        /\ ~last.args.dev)
        => /\ last.res = "null"
           /\ last.kids1 = last.kids0
           /\ ~last.intr => last.after = last.before

\* the short-circuit taken with a backend already tracked
C6_Witness ==
    /\ MainIdle
    /\ last.op = "startFrontend" /\ last.res = "null"
    /\ last.args.ui /\ last.args.dist /\ ~last.args.dev
    /\ Len(last.before) = 1 /\ processes = last.before

\* the log texts of LogTexts that hold the literal EADDRINUSE
TextsWithMarker ==
    { <<"E", "A", "D", "D", "R", "I", "N", "U", "S", "E">>,
      <<"x", "E", "A", "D", "D", "R", "I", "N", "U", "S", "E", "y">> }

FrontendFailures == {"PortInUse", "StartupFailedSeeLog"}

C7_Classified ==
    (last.op = "startFrontend" /\ last.res \in FrontendFailures)
        => /\ last.res = "PortInUse" <=> last.text \in TextsWithMarker
           /\ last.res = "PortInUse"
                => last.port = IF last.frontend = None THEN 3000 ELSE 3001

\* the liveness check that finds the frontend exited ends in one of the
\* two errors
C7_Step ==
    (At({"startFrontend"}, "sf_sleep") /\ Len(stack) = 1 /\ ~Alive(Top.p)
        /\ stack' = <<IdleFrame>>)
        => last'.res \in FrontendFailures

\* C7: a frontend found exited at the liveness check raises PortInUseError
\* naming the configured dev port exactly when frontend.log holds
\* EADDRINUSE, and otherwise the generic error pointing to frontend.log.
C7_PortConflict == []C7_Classified /\ [][C7_Step]_vars

\* a port conflict found in the middle of the log, with a configured port
C7_Witness ==
    /\ last.op = "startFrontend" /\ last.res = "PortInUse"
    /\ last.text = <<"x", "E", "A", "D", "D", "R", "I", "N", "U", "S", "E", "y">>
    /\ last.port = 3001

\* C13: cleanup() always returns, whatever the children do: once the
\* caller has called it the main flow gets control back.
C13_CleanupTerminates == InCleanup ~> MainIdle

\* a cleanup() that returned although the child it killed was still
\* there when wait(timeout=0.5) gave up
C13_Witness ==
    /\ MainIdle /\ last.op = "cleanup"
    /\ \E q \in 1..Len(children) :
          children[q].alive /\ children[q].term /\ children[q].kill

\* where a frame running cleanup() is: before the terminate loop, in it,
\* in the grace sleep, in the kill loop, about to clear the list
Phase(pc) ==
    CASE pc = "c_check" -> 0
      [] pc \in {"c_t_next", "c_term"} -> 1
      [] pc = "c_sleep" -> 2
      [] pc \in {"c_k_next", "c_kill", "c_kwait"} -> 3
      [] pc = "c_clear" -> 4
      [] OTHER -> 5

\* terminate() was called on child q in the running cleanup(): the signal
\* was sent, or the call raised
TermCalled(f, q) == <<q, "term">> \in f.sent \cup f.failed
KillCalled(f, q) == <<q, "kill">> \in f.sent \cup f.failed

\* in the cleanup() the caller is running: every tracked process still
\* running once the terminate loop is over has had terminate() called on
\* it, and a process is sent kill only after terminate() was called on it
C15_Terminated ==
    InCleanup =>
        /\ stack[1].pc \in {"c_sleep", "c_k_next", "c_kill", "c_kwait", "c_clear"}
              => \A k \in 1..Len(processes) :
                    Alive(processes[k]) => TermCalled(stack[1], processes[k])
        /\ \A q \in 1..Len(children) :
              <<q, "kill">> \in stack[1].sent => TermCalled(stack[1], q)

\* a step of cleanup() goes forward through the phases; terminate is sent
\* in the terminate loop only and kill in the kill loop only, each to the
\* process just polled, which is still running
C15_Step ==
    (InCleanup /\ stack'[1].op = "cleanup")
        => /\ Phase(stack[1].pc) <= Phase(stack'[1].pc)
           /\ \A q \in 1..Len(children) :
                 /\ (children'[q].term /\ ~children[q].term)
                       => /\ stack[1].pc = "c_term" /\ q = stack[1].p
                          /\ children[q].alive /\ ~children[q].kill
                 /\ (children'[q].kill /\ ~children[q].kill)
                       => /\ stack[1].pc = "c_kill" /\ q = stack[1].p
                          /\ children[q].alive

\* C15: in one cleanup() every terminate comes before the grace sleep and
\* every kill after it; terminate is sent (or the attempt raises) for
\* every tracked process still running before the sleep starts; kill goes
\* only to processes still running after it, never to one terminate() was
\* not called on; a process that has exited gets neither signal.
C15_EscalationOrder == []C15_Terminated /\ [][C15_Step]_vars

\* a cleanup() of two tracked processes about to clear the list: the
\* first had exited and got no signal, the second was sent terminate
\* and then kill
C15_Witness ==
    /\ InCleanup /\ stack[1].pc = "c_clear"
    /\ Len(processes) = 2
    /\ LET c1 == children[processes[1]]
           c2 == children[processes[2]]
       IN  ~c1.alive /\ ~c1.term /\ ~c1.kill /\ c2.term /\ c2.kill
    /\ stack[1].sent = { <<processes[2], "term">>, <<processes[2], "kill">> }

\* a statement of cleanup() that failed on child q: terminate() or kill()
\* raised, or the wait after the kill timed out
FailedOn(f, q) ==
    \/ <<q, "term">> \in f.failed
    \/ <<q, "kill">> \in f.failed
    \/ (<<q, "kill">> \in f.sent /\ Alive(q))

\* after a failure the loops still reach every tracked process: at line
\* 260 each one has exited or has had terminate() and kill() called on it
C16_AllHandled ==
    (InCleanup /\ stack[1].pc = "c_clear"
        /\ \E q \in 1..Len(children) : FailedOn(stack[1], q))
      => \A k \in 1..Len(stack[1].before) :
            LET q == stack[1].before[k]
            IN  Alive(q) => TermCalled(stack[1], q) /\ KillCalled(stack[1], q)

\* a failing statement does not end the call: the next step of cleanup()
\* goes on with the loop it is in
C16_Step ==
    (InCleanup /\ stack[1].pc \in {"c_term", "c_kill", "c_kwait"}
        /\ stack' # stack)
        => /\ stack'[1].op = "cleanup"
           /\ stack'[1].i = stack[1].i
           /\ stack'[1].pc \in {"c_t_next", "c_k_next", "c_kwait"}
           /\ Phase(stack'[1].pc) = Phase(stack[1].pc)

\* C16: when terminate() or kill() raises, or the wait after a kill times
\* out, cleanup() goes on with the remaining tracked processes, and like
\* any cleanup() it returns normally with the tracked list empty.
C16_BestEffort ==
    /\ [](last.op = "cleanup" => last.res = "ok" /\ last.after = <<>>)
    /\ []C16_AllHandled
    /\ [][C16_Step]_vars

\* terminate() and kill() raised on the first of two processes; the
\* second was still terminated and killed, and its wait timed out
C16_Witness ==
    /\ InCleanup /\ stack[1].pc = "c_clear"
    /\ Len(stack[1].before) = 2
    /\ stack[1].failed = { <<processes[1], "term">>, <<processes[1], "kill">> }
    /\ stack[1].sent = { <<processes[2], "term">>, <<processes[2], "kill">> }
    /\ Alive(processes[1]) /\ Alive(processes[2])

\* the last call was a startFrontend that spawned the frontend process
SpawnedFrontend ==
    /\ last.op = "startFrontend"
    /\ last.p # 0
    /\ children[last.p].kind = "frontend"

\* C17 as stated: the command launched is the dev-server command when the
\* caller passed devMode = true and the build command when it passed
\* devMode = false.
C17_CommandFollowsDevMode ==
    SpawnedFrontend
        => children[last.p].cmd = IF last.args.dev THEN "npm run dev"
                                  ELSE "npm run build"

\* C17 amended: every frontend process is launched with the dev-server
\* command; a call with devMode = false spawns one only when there is no
\* static-assets directory, the build command is never launched.
C17_CommandIsDev ==
    /\ SpawnedFrontend
          => /\ children[last.p].cmd = "npm run dev"
             /\ ~last.args.dev => ~last.args.dist
    /\ \A q \in 1..Len(children) : children[q].cmd # "npm run build"

\* devMode = false without static assets: the dev server was started
C17_Witness ==
    /\ SpawnedFrontend
    /\ ~last.args.dev /\ ~last.args.dist /\ last.res = "ok"
    /\ children[last.p].cmd = "npm run dev"
    /\ children[last.p].alive

\* C18: once a cleanup() has cleared the tracked list, no step launches a
\* child or puts a process in the list.
C18_TerminatedIsTerminal ==
    [][cleared => /\ Len(children') = Len(children)
                  /\ processes' = processes \/ processes' = <<>>]_vars

\* C19: when the frontend is found exited at the liveness check,
\* startFrontend fails and the tracked list is what it was before the
\* call.
C19_FailedFrontendNotTracked ==
    (last.op = "startFrontend" /\ last.res \in FrontendFailures
        /\ ~last.intr)
        => last.after = last.before

Range(list) == { list[k] : k \in 1..Len(list) }

\* the statements that signal or wait for the process the loop fetched
ActingPcs == {"c_term", "c_kill", "c_kwait", "w_wait"}

\* a cleanup() or waitAll() of the caller during which a handler ran its
\* cleanup() returned normally, with the tracked list empty
C20_Completes ==
    (last.op \in {"cleanup", "waitAll"} /\ last.intr)
        => last.res = "ok" /\ last.after = <<>>

\* C20 as stated: in addition, whatever is signalled or waited for is an
\* entry of the tracked list at that moment.
C20_ReentrantCleanupSafe ==
    /\ C20_Completes
    /\ (Len(stack) > 0 /\ Top.pc \in ActingPcs) => Top.p \in Range(processes)

\* a loop takes its next process from the tracked list as it is then
C20_Fetch ==
    LET f == stack'[Len(stack')]
    IN  (Len(stack) > 0 /\ Len(stack') = Len(stack)
            /\ Top.pc \in {"c_t_next", "c_k_next", "w_next"}
            /\ f.pc \in ActingPcs)
        => /\ f.p \in Range(processes)
           /\ children[f.p].kind \in {"backend", "frontend"}

\* C20 amended: the interrupted operation and the handler's cleanup() both
\* return normally and leave the list empty, and every process a loop
\* fetches is a complete entry of the list at the time it is fetched; the
\* one process the interrupted loop had already fetched may still be
\* signalled or waited for after the handler removed it.
C20_ReentrantCleanup == []C20_Completes /\ [][C20_Fetch]_vars

\* a caller's cleanup() interrupted between fetching a process and
\* terminating it: the handler's cleanup() has emptied the list
C20_Witness ==
    /\ Len(stack) = 1 /\ Top.op = "cleanup" /\ Top.pc = "c_term"
    /\ nHandlerCleanups = 1 /\ cleared
    /\ Top.before # <<>> /\ processes = <<>>
    /\ children[Top.p].term

====
